---- MODULE Spec2Model ----
(***************************************************************************)
(* Model of UnitTest/Cpp/DbManagerTest.OleDb.Access.h: the NUnit fixture   *)
(* Cpp::DbManagerTest::OleDb::Access, whose only member is the property    *)
(* accessor get_ConfigurationString, which returns the string literal      *)
(* "Access.OleDb".                                                         *)
(*                                                                         *)
(* The test framework instantiates fixtures and calls the accessor from    *)
(* its threads.  A call is two steps of its thread (entry, then the return *)
(* statement), so calls of different threads overlap in every order.       *)
(***************************************************************************)
EXTENDS Naturals, FiniteSets, Sequences, TLC

\* Bounds of the model.
MaxFixtures == 2    \* Access objects the framework may instantiate
NumThreads == 3     \* framework threads calling the accessor
MaxCalls == 4       \* accessor calls started in one run

Fixtures == 1..MaxFixtures
Threads == 1..NumThreads

\* The string literal of the return statement.
Literal == "Access.OleDb"

\* Outcomes of a call as its caller sees them.
NoResult == [kind |-> "none", value |-> ""]
Value(s) == [kind |-> "value", value |-> s]
Exception == [kind |-> "exception", value |-> ""]

VARIABLES
    instances,  \* the Access objects that exist (the class declares no field)
    interned,   \* content of the string object the literal is loaded from
    pc,         \* pc[t]: "idle", "entered" (inside the accessor), "returned"
    this,       \* this[t]: the fixture thread t's call is on, 0 when idle
    result,     \* result[t]: what the call of thread t returned
    overlap,    \* overlap[t]: another call was in progress during t's call
    last,       \* last[i]: outcome of the latest completed call on fixture i
    ncalls      \* calls started so far

vars == <<instances, interned, pc, this, result, overlap, last, ncalls>>

\* The memory a call can reach: the fixture objects and the literal's string.
Memory == [instances |-> instances, interned |-> interned]

\* Variants of the accessor with a defect, used to test the properties below.
\* Returns the identifier of a sibling fixture.
get_ConfigurationString_Sibling(self, mem) ==
    [value |-> "Access.Odbc", raised |-> FALSE, mem |-> mem]

\* Returns the right string but rewrites the shared string object in place.
get_ConfigurationString_Mutating(self, mem) ==
    [value |-> Literal, raised |-> FALSE,
     mem |-> [mem EXCEPT !.interned = "access.oledb"]]

\* Throws (a body left as "not implemented") instead of returning.
get_ConfigurationString_Throwing(self, mem) ==
    [value |-> "", raised |-> TRUE, mem |-> mem]

\* Returns a name that depends on the instance the call is on.
get_ConfigurationString_PerInstance(self, mem) ==
    [value |-> IF self = 1 THEN mem.interned ELSE "Access.OleDb.2",
     raised |-> FALSE, mem |-> mem]

\* Hands out the shared string object and leaves an empty one behind, so a
\* call that comes after another one sees what that one did.
get_ConfigurationString_Moving(self, mem) ==
    [value |-> mem.interned, raised |-> FALSE,
     mem |-> [mem EXCEPT !.interned = ""]]

\* __property String* get_ConfigurationString() { return "Access.OleDb"; }
\* The call loads the literal's string object and returns it; it assigns
\* nothing and throws nothing.
get_ConfigurationString(self, mem) ==
    [value |-> mem.interned, raised |-> FALSE, mem |-> mem]

Init ==
    /\ instances = {}
    /\ interned = Literal
    /\ pc = [t \in Threads |-> "idle"]
    /\ this = [t \in Threads |-> 0]
    /\ result = [t \in Threads |-> NoResult]
    /\ overlap = [t \in Threads |-> FALSE]
    /\ last = [i \in Fixtures |-> NoResult]
    /\ ncalls = 0

\* The framework instantiates the fixture: the class has no constructor body
\* and no field, so the object only comes to exist.
Instantiate(i) ==
    /\ i \notin instances
    /\ instances' = instances \cup {i}
    /\ UNCHANGED <<interned, pc, this, result, overlap, last, ncalls>>

\* Thread t calls the accessor on fixture i: control enters the body.
Call(t, i) ==
    /\ pc[t] = "idle"
    /\ i \in instances
    /\ ncalls < MaxCalls
    /\ pc' = [pc EXCEPT ![t] = "entered"]
    /\ this' = [this EXCEPT ![t] = i]
    /\ overlap' = [u \in Threads |->
                     IF \E v \in Threads \ {t} : pc[v] = "entered"
                     THEN (u = t \/ pc[u] = "entered" \/ overlap[u])
                     ELSE overlap[u]]
    /\ ncalls' = ncalls + 1
    /\ UNCHANGED <<instances, interned, result, last>>

\* Thread t executes the body of the accessor and control returns to the caller.
Return(t) ==
    /\ pc[t] = "entered"
    /\ LET r == get_ConfigurationString(this[t], Memory)
           out == IF r.raised THEN Exception ELSE Value(r.value)
       IN /\ instances' = r.mem.instances
          /\ interned' = r.mem.interned
          /\ result' = [result EXCEPT ![t] = out]
          /\ last' = [last EXCEPT ![this[t]] = out]
    /\ pc' = [pc EXCEPT ![t] = "returned"]
    /\ UNCHANGED <<this, overlap, ncalls>>

\* The caller has used the returned value and is ready for another call.
Consume(t) ==
    /\ pc[t] = "returned"
    /\ pc' = [pc EXCEPT ![t] = "idle"]
    /\ this' = [this EXCEPT ![t] = 0]
    /\ result' = [result EXCEPT ![t] = NoResult]
    /\ overlap' = [overlap EXCEPT ![t] = FALSE]
    /\ UNCHANGED <<instances, interned, last, ncalls>>

Next ==
    \/ \E i \in Fixtures : Instantiate(i)
    \/ \E t \in Threads, i \in Fixtures : Call(t, i)
    \/ \E t \in Threads : Return(t)
    \/ \E t \in Threads : Consume(t)

Spec == Init /\ [][Next]_vars

\* A thread inside the accessor runs straight-line code with nothing to wait
\* for, so a scheduled thread finishes its call.
FairSpec == Spec /\ \A t \in Threads : WF_vars(Return(t))

TypeOK ==
    /\ instances \subseteq Fixtures
    /\ interned \in STRING
    /\ pc \in [Threads -> {"idle", "entered", "returned"}]
    /\ this \in [Threads -> Fixtures \cup {0}]
    /\ overlap \in [Threads -> BOOLEAN]
    /\ ncalls \in 0..MaxCalls

\* C1: every invocation of the accessor, on every fixture and at any point of
\* any sequence of invocations, returns exactly the string "Access.OleDb".
C1_ReturnsAccessOleDb ==
    /\ \A t \in Threads : pc[t] = "returned" => result[t] = Value("Access.OleDb")
    /\ \A i \in Fixtures : last[i] # NoResult => last[i] = Value("Access.OleDb")

\* The last call the bound allows has returned, after earlier calls on every
\* fixture.
C1_Witness ==
    /\ ncalls = MaxCalls
    /\ \E t \in Threads : pc[t] = "returned" /\ result[t].kind = "value"
    /\ \A i \in Fixtures : last[i] # NoResult

\* C2: a call of the accessor has no side effect: from its entry to its
\* return it leaves the fixture objects and the configuration identifier's
\* string as they were, so the identifier is never mutated.
C2_NoSideEffect ==
    [][\A t \in Threads :
          (Return(t) \/ \E i \in Fixtures : Call(t, i))
              => (instances' = instances /\ interned' = interned)]_vars

\* Calls have returned on both of two existing fixtures and the identifier's
\* string is still the literal.
C2_Witness ==
    /\ \E t \in Threads : pc[t] = "returned"
    /\ Cardinality(instances) >= 2
    /\ \A i \in instances : last[i].kind = "value"
    /\ interned = Literal

\* C3: the accessor is total: no invocation ends in an exception, every
\* invocation that has returned returned a string, and every invocation that
\* was entered returns.
C3_Total ==
    /\ [](\A t \in Threads :
             /\ result[t].kind # "exception"
             /\ pc[t] = "returned" =>
                   (result[t].kind = "value" /\ result[t].value \in STRING))
    /\ \A t \in Threads : (pc[t] = "entered") ~> (pc[t] = "returned")

\* Every thread has a completed call with a string result at the same time.
C3_Witness ==
    \A t \in Threads : pc[t] = "returned" /\ result[t].kind = "value"

\* C4: the accessor returns equal values on any two separately instantiated
\* fixtures, whatever calls were made before on either of them.
C4_SameAcrossInstances ==
    \A i, j \in instances :
        (i # j /\ last[i] # NoResult /\ last[j] # NoResult) => last[i] = last[j]

\* Two different fixtures have both been called, one of them after an earlier
\* call, and two threads hold results of calls on different fixtures.
C4_Witness ==
    /\ ncalls >= 3
    /\ \E i, j \in instances :
          i # j /\ last[i].kind = "value" /\ last[j].kind = "value"
    /\ \E t, u \in Threads :
          /\ pc[t] = "returned" /\ pc[u] = "returned"
          /\ this[t] # this[u]

\* C5: under every interleaving of concurrent calls, a call that overlapped
\* with another call finds the identifier's string as it was created, and
\* returns "Access.OleDb": no call sees an effect of another call.
C5_ConcurrentCalls ==
    \A t \in Threads :
        (pc[t] # "idle" /\ overlap[t]) =>
            /\ interned = Literal
            /\ pc[t] = "returned" => result[t] = Value(Literal)

\* A call that overlapped with another call has returned while a third call,
\* entered after that other call returned, is still in progress.
C5_Witness ==
    \E t, u \in Threads :
        /\ t # u
        /\ pc[t] = "returned" /\ overlap[t]
        /\ pc[u] = "entered"
        /\ ncalls >= 3

====
